---- MODULE Spec2Model ----
(***************************************************************************)
(* FloodProcess (src/src/glanvup/floodzard.py): clipping a hazard raster   *)
(* to each administrative region (process_flood_tiff), tracing each        *)
(* clipped raster into polygons (process_tif), concatenating the traced    *)
(* files (pop_flood) and overlaying them with the population-boundary join *)
(* (flood_pop_overlay).                                                    *)
(*                                                                         *)
(* A raster is a grid [h, w, r0, c0, v]: h rows and w columns of cells,    *)
(* v[<<r, c>>] the value of pixel <<r, c>>, and the affine transform a     *)
(* translation: pixel <<r, c>> is the geographic cell <<r + r0, c + c0>>.  *)
(* A ring of a polygon is written as the set of cells it encloses.         *)
(***************************************************************************)
EXTENDS Integers, Sequences, FiniteSets, TLC

VARIABLES
    regionFiles,   \* data/processed/<iso3>/regions: level -> boundary file
    gid_region,    \* countries.csv: the country's administrative level
    data,          \* the population csv (self.pop_csv)
    flood_tiff,    \* self.flood_tiff: the hazard raster of this FloodProcess
    tifs,          \* .../hazards/inunriver/tifs: region code -> raster
    shps,          \* .../hazards/inunriver/shapefiles: region code -> features
    pc,            \* the method (or loop) that is executing
    idx,           \* process_flood_tiff: position in regions.iterrows()
    todo,          \* process_tif: entries of os.listdir(folder) not yet visited
    handles,       \* dataset handles that are open
    done,          \* items the running (or last) call went through
    failed,        \* items of the running (or last) process_tif call that raised
    raised,        \* the exception the last call let escape, or "none"
    array,         \* the vectorizer's input raster (src)
    output,        \* the features process_tif built from it
    rt,            \* the raster burnt back from output
    combined_gdf,  \* what pop_flood returned
    pop_bound_flood, \* flood_pop_overlay: the merged frame it overlaid last
    intersection   \* what flood_pop_overlay returned or raised

vars == <<regionFiles, gid_region, data, flood_tiff, tifs, shps, pc, idx, todo,
          handles, done, failed, raised, array, output, rt,
          combined_gdf, pop_bound_flood, intersection>>

vecVars == <<array, output, rt>>
overlayVars == <<combined_gdf, pop_bound_flood, intersection>>
inputVars == <<regionFiles, gid_region, data>>

----------------------------------------------------------------------------
(* Rasters *)

NoData == 255

\* The cell values of the model: dry, flooded (intensity 1), no data.
Vals == {0, 1, NoData}

Pixels(g) == (1..g.h) \X (1..g.w)

\* The pixels that share an edge with p (rasterio.features.shapes:
\* connectivity = 4) or, with diag, an edge or a corner.
Neighbours(p, diag) ==
    {<<p[1] - 1, p[2]>>, <<p[1] + 1, p[2]>>, <<p[1], p[2] - 1>>, <<p[1], p[2] + 1>>}
    \cup (IF diag
          THEN {<<p[1] - 1, p[2] - 1>>, <<p[1] - 1, p[2] + 1>>,
                <<p[1] + 1, p[2] - 1>>, <<p[1] + 1, p[2] + 1>>}
          ELSE {})

\* The pixels of Allowed that paths of neighbours within Allowed join to S.
RECURSIVE Grow(_, _, _)
Grow(S, Allowed, diag) ==
    LET nxt == S \cup (Allowed \cap UNION {Neighbours(s, diag) : s \in S})
    IN  IF nxt = S THEN S ELSE Grow(nxt, Allowed, diag)

\* The connected component of equal values that holds pixel p.
Component(g, p) == Grow({p}, {q \in Pixels(g) : g.v[q] = g.v[p]}, FALSE)

OnEdge(g, p) == p[1] = 1 \/ p[1] = g.h \/ p[2] = 1 \/ p[2] = g.w

\* The pixels the exterior ring of component C encloses besides C: those
\* that no path of pixels outside C joins to the edge of the grid. Where
\* the boundary of C touches itself at a corner the polygonizer of the
\* installed GDAL either closes the exterior ring there (the pocket behind
\* the corner is an interior ring: diag = FALSE) or runs it through the
\* corner and around the pocket (the pocket is outside: diag = TRUE).
Holes(g, C, diag) ==
    LET free == Pixels(g) \ C
    IN  free \ Grow({p \in free : OnEdge(g, p)}, free, diag)

PixelAt(g, k) == <<((k - 1) \div g.w) + 1, ((k - 1) % g.w) + 1>>

\* One (geometry, value) pair of rasterio.features.shapes: the polygon of
\* component C, coordinates[1] its exterior ring and, when C encloses
\* pixels, coordinates[2] the interior rings.
Shape(g, C, val, diag) ==
    LET H == Holes(g, C, diag)
    IN  << [type |-> "Polygon",
            coordinates |-> IF H = {} THEN << C >> ELSE << C \cup H, H >>],
           val >>

\* rasterio.features.shapes(array): one pair per connected component of
\* every value (no mask is given), in the order of each component's first
\* pixel in scan order (seen: the pixels of the components already given).
RECURSIVE ShapesFrom(_, _, _, _)
ShapesFrom(g, k, seen, diag) ==
    IF k > g.h * g.w THEN << >>
    ELSE IF PixelAt(g, k) \in seen THEN ShapesFrom(g, k + 1, seen, diag)
    ELSE LET p == PixelAt(g, k)
             C == Component(g, p)
         IN  << Shape(g, C, g.v[p], diag) >> \o ShapesFrom(g, k + 1, seen \cup C, diag)

shapes(g, diag) == ShapesFrom(g, 1, {}, diag)

\* src.transform * (x, y), applied to every vertex of a ring.
Transform(g, ring) == {<<p[1] + g.r0, p[2] + g.c0>> : p \in ring}

\* The filter without its test of the no-data sentinel.
KeepPositive(val) == val > 0

\* process_tif, line 145: the polygons that are kept.
Keep(val) == val > 0 /\ ~(val = NoData)

\* process_tif, lines 147-169: the feature built from one pair; only
\* coordinates[0], the exterior ring, is read.
Feature(g, vec) ==
    [type |-> vec[1].type,
     geometry |-> [type |-> "Polygon",
                   coordinates |-> << Transform(g, vec[1].coordinates[1]) >>],
     properties |-> [value |-> vec[2]]]

\* process_tif, lines 136-169: the features of one raster file.
Features(g, diag) ==
    LET kept == SelectSeq(shapes(g, diag), LAMBDA vec : Keep(vec[2]))
    IN  [i \in 1..Len(kept) |-> Feature(g, kept[i])]

\* The area of a feature's polygon: inside its first ring, outside the others.
Covers(f, cell) ==
    /\ cell \in f.geometry.coordinates[1]
    /\ \A i \in 2..Len(f.geometry.coordinates) : cell \notin f.geometry.coordinates[i]

\* Burning features back into a grid of the dimensions and transform of g:
\* a pixel takes the value of the last feature that covers it, else 0.
Rasterize(fs, g) ==
    [p \in Pixels(g) |->
        LET cell == <<p[1] + g.r0, p[2] + g.c0>>
            hits == {i \in 1..Len(fs) : Covers(fs[i], cell)}
        IN  IF hits = {} THEN 0
            ELSE fs[CHOOSE i \in hits : \A j \in hits : j <= i].properties.value]

----------------------------------------------------------------------------
(* process_flood_tiff and process_tif over the on-disk stores *)

HazRows == 1
HazCols == 2
NumRegions == 2
Levels == {1, 2}

\* The hazard rasters a FloodProcess can be constructed with.
HazardRasters ==
    {[h |-> HazRows, w |-> HazCols, r0 |-> 0, c0 |-> 0, v |-> f] :
        f \in [(1..HazRows) \X (1..HazCols) -> Vals]}

\* The geographic cells a raster covers.
Extent(g) == {<<p[1] + g.r0, p[2] + g.c0>> : p \in Pixels(g)}

\* Region geometries: runs of cells of one row; column HazCols + 1 lies
\* beyond every hazard raster.
Geoms ==
    {{<<r, c>> : c \in a..b} : r \in 1..HazRows,
                               a \in 1..(HazCols + 1), b \in 1..(HazCols + 1)} \ {{}}

Code(level, i) ==
    IF level = 1 THEN <<"A.1", "A.2", "A.3", "A.4">>[i]
    ELSE <<"A.1.1", "A.1.2", "A.2.1", "A.2.2">>[i]

Parent(i) == <<"A.1", "A.1", "A.2", "A.2">>[i]

\* The boundary files gadm_<level>.shp can hold: NumRegions regions, in
\* file order, each with the codes of its level and a geometry.
BoundaryFiles(level) ==
    {[i \in 1..NumRegions |->
        [GID_1 |-> IF level = 1 THEN Code(1, i) ELSE Parent(i),
         GID_2 |-> IF level = 1 THEN "" ELSE Code(2, i),
         geometry |-> geo[i]]] : geo \in [1..NumRegions -> Geoms]}

\* region[gid_level], gid_level = 'GID_{}'.format(gid_region).
GidOf(region, level) == IF level = 1 THEN region.GID_1 ELSE region.GID_2

MinOf(S) == CHOOSE x \in S : \A y \in S : x <= y
MaxOf(S) == CHOOSE x \in S : \A y \in S : y <= x

Overlaps(hazard, geom) == geom \cap Extent(hazard) # {}

\* rasterio.mask.mask(hazard, coords, crop = True) for a geometry that
\* overlaps the raster: the window is the bounding box of the geometry
\* within the raster, pixels outside the geometry are set to nodata (255,
\* line 74), and the transform is that of the window.
mask(hazard, geom) ==
    LET over == geom \cap Extent(hazard)
        rmin == MinOf({c[1] : c \in over})
        rmax == MaxOf({c[1] : c \in over})
        cmin == MinOf({c[2] : c \in over})
        cmax == MaxOf({c[2] : c \in over})
    IN  [h |-> rmax - rmin + 1, w |-> cmax - cmin + 1,
         r0 |-> rmin - 1, c0 |-> cmin - 1,
         v |-> [p \in (1..(rmax - rmin + 1)) \X (1..(cmax - cmin + 1)) |->
                  LET cell == <<p[1] + rmin - 1, p[2] + cmin - 1>>
                  IN  IF cell \in geom
                      THEN hazard.v[<<cell[1] - hazard.r0, cell[2] - hazard.c0>>]
                      ELSE NoData]]

\* f with key k written (a file is overwritten, never merged).
Put(f, k, val) == [x \in DOMAIN f \cup {k} |-> IF x = k THEN val ELSE f[x]]

Returned == {"new", "flood_end", "tif_end", "pop_end", "overlay_end"}

NotCalled == [status |-> "not called", rows |-> {}]

InitPipeline ==
    /\ gid_region \in Levels
    /\ \E file \in BoundaryFiles(gid_region) : regionFiles = (gid_region :> file)
    /\ data = {}
    /\ flood_tiff \in HazardRasters
    /\ tifs = << >> /\ shps = << >>
    /\ pc = "new" /\ idx = 0 /\ todo = {} /\ handles = 0
    /\ done = {} /\ failed = {} /\ raised = "none"
    /\ array = << >> /\ output = << >> /\ rt = << >>
    /\ combined_gdf = << >> /\ pop_bound_flood = {} /\ intersection = NotCalled

\* FloodProcess(csv_filename, country_iso3, flood_tiff, pop_csv): the
\* orchestrator builds a FloodProcess for another hazard file.
Construct ==
    /\ pc \in Returned
    /\ \E h \in HazardRasters : flood_tiff' = h
    /\ pc' = "new"
    /\ done' = {} /\ failed' = {} /\ raised' = "none"
    /\ UNCHANGED <<inputVars, tifs, shps, idx, todo, handles, vecVars, overlayVars>>

\* process_flood_tiff, lines 42-60: the country's row and its boundary file.
process_flood_tiff ==
    /\ pc \in Returned
    /\ done' = {} /\ failed' = {}
    /\ IF gid_region \in DOMAIN regionFiles
       THEN pc' = "process_flood_tiff" /\ idx' = 1 /\ raised' = "none"
       ELSE pc' = "flood_end" /\ idx' = 0 /\ raised' = "DriverError"
    /\ UNCHANGED <<inputVars, flood_tiff, tifs, shps, todo, handles, vecVars, overlayVars>>

\* process_flood_tiff, lines 62-106: one iteration of regions.iterrows().
\* rasterio.open(path_hazard, 'r+') binds `hazard` to a new handle, which
\* nothing closes: the handle of the iteration before is released when the
\* name is rebound, this one when the frame is. mask raises ValueError for a
\* geometry that does not overlap the raster, and nothing catches it.
ClipRegion ==
    /\ pc = "process_flood_tiff"
    /\ idx <= Len(regionFiles[gid_region])
    /\ LET region == regionFiles[gid_region][idx]
           gid_id == GidOf(region, gid_region)
       IN  IF Overlaps(flood_tiff, region.geometry)
           THEN /\ tifs' = Put(tifs, gid_id, mask(flood_tiff, region.geometry))
                /\ done' = done \cup {gid_id}
                /\ idx' = idx + 1
                /\ handles' = 1
                /\ UNCHANGED <<pc, raised>>
           ELSE /\ raised' = "ValueError"
                /\ pc' = "flood_end"
                /\ handles' = 0
                /\ UNCHANGED <<tifs, done, idx>>
    /\ UNCHANGED <<inputVars, flood_tiff, shps, todo, failed, vecVars, overlayVars>>

\* process_flood_tiff, lines 108-110: the loop is over.
EndFloodTiff ==
    /\ pc = "process_flood_tiff"
    /\ idx > Len(regionFiles[gid_region])
    /\ pc' = "flood_end"
    /\ handles' = 0
    /\ UNCHANGED <<inputVars, flood_tiff, tifs, shps, idx, todo, done, failed, raised,
                   vecVars, overlayVars>>

\* process_tif, lines 117-119: os.listdir of the tifs folder, which exists
\* once a clipped raster was written (line 101).
process_tif ==
    /\ pc \in Returned
    /\ done' = {} /\ failed' = {}
    /\ IF DOMAIN tifs # {}
       THEN pc' = "process_tif" /\ todo' = DOMAIN tifs /\ raised' = "none"
       ELSE pc' = "tif_end" /\ todo' = {} /\ raised' = "FileNotFoundError"
    /\ UNCHANGED <<inputVars, flood_tiff, tifs, shps, idx, handles, vecVars, overlayVars>>

\* process_tif, lines 120-174: one entry of the listing, in whatever order
\* os.listdir gives. The raster is read inside `with`, so its handle is
\* closed when the block is left. Anything raised (an unreadable raster;
\* to_file refusing an empty frame, which depends on the geopandas
\* installed) is swallowed by `except: pass` and the .shp file is not
\* written.
VectorizeFile ==
    /\ pc = "process_tif"
    /\ \E t \in todo, diag \in BOOLEAN :
        LET out == Features(tifs[t], diag)
        IN  \E readable \in BOOLEAN, writesEmpty \in BOOLEAN :
            /\ todo' = todo \ {t}
            /\ IF readable /\ (out # << >> \/ writesEmpty)
               THEN /\ shps' = Put(shps, t, out)
                    /\ done' = done \cup {t}
                    /\ UNCHANGED failed
               ELSE /\ failed' = failed \cup {t}
                    /\ UNCHANGED <<shps, done>>
    /\ handles' = handles
    /\ UNCHANGED <<inputVars, flood_tiff, tifs, pc, idx, raised, vecVars, overlayVars>>

\* process_tif, line 176.
EndTif ==
    /\ pc = "process_tif"
    /\ todo = {}
    /\ pc' = "tif_end"
    /\ UNCHANGED <<inputVars, flood_tiff, tifs, shps, idx, todo, handles, done, failed,
                   raised, vecVars, overlayVars>>

Next ==
    \/ Construct
    \/ process_flood_tiff
    \/ ClipRegion
    \/ EndFloodTiff
    \/ process_tif
    \/ VectorizeFile
    \/ EndTif

Spec == InitPipeline /\ [][Next]_vars

\* C1: when process_flood_tiff is over, a region whose geometry does not
\* overlap the hazard raster has not made it raise: its clip is persisted
\* as a zero-area raster and every region after it in the boundary file
\* was clipped and persisted.
C1_NonOverlapClipDoesNotRaise ==
    (pc = "flood_end" /\ gid_region \in DOMAIN regionFiles) =>
        LET regions == regionFiles[gid_region]
        IN  \A i \in DOMAIN regions :
                ~Overlaps(flood_tiff, regions[i].geometry) =>
                    /\ raised = "none"
                    /\ GidOf(regions[i], gid_region) \in done
                    /\ GidOf(regions[i], gid_region) \in DOMAIN tifs
                    /\ Pixels(tifs[GidOf(regions[i], gid_region)]) = {}
                    /\ \A j \in DOMAIN regions :
                          j > i => GidOf(regions[j], gid_region) \in done

\* C2: a failing item is the only one skipped: when process_flood_tiff is
\* over every region that can be clipped was clipped, and when process_tif
\* is over every raster whose vectorization did not fail was vectorized.
C2_SiblingsUnaffected ==
    /\ (pc = "flood_end" /\ gid_region \in DOMAIN regionFiles) =>
          \A i \in DOMAIN regionFiles[gid_region] :
              Overlaps(flood_tiff, regionFiles[gid_region][i].geometry) =>
                  GidOf(regionFiles[gid_region][i], gid_region) \in done
    /\ (pc = "tif_end" /\ raised = "none") => done = DOMAIN tifs \ failed

\* C3: no dataset handle is open when a loop iteration begins or a call is
\* over.
C3_NoHandleAcrossIterations == handles = 0

\* C9: when process_tif is over, the vector store holds one file per
\* clipped raster and each file holds the features of its raster's current
\* contents.
C9_OneCurrentVectorFilePerRaster ==
    (pc = "tif_end" /\ raised = "none") =>
        /\ DOMAIN shps = DOMAIN tifs
        /\ \A g \in DOMAIN shps : \E diag \in BOOLEAN : shps[g] = Features(tifs[g], diag)

----------------------------------------------------------------------------
(* process_tif on one clipped raster: every grid of TifRows x TifCols. *)

TifRows == 2
TifCols == 2

ClippedRasters ==
    {[h |-> TifRows, w |-> TifCols, r0 |-> 0, c0 |-> 0, v |-> f] :
        f \in [(1..TifRows) \X (1..TifCols) -> Vals]}

InitTif ==
    /\ regionFiles = << >> /\ gid_region = 1 /\ data = {}
    /\ flood_tiff = << >>
    /\ \E g \in ClippedRasters : tifs = ("A.1" :> g)
    /\ shps = << >>
    /\ pc = "new" /\ idx = 0 /\ todo = {} /\ handles = 0
    /\ done = {} /\ failed = {} /\ raised = "none"
    /\ array = << >> /\ output = << >> /\ rt = << >>
    /\ combined_gdf = << >> /\ pop_bound_flood = {} /\ intersection = NotCalled

NextTif == process_tif \/ VectorizeFile \/ EndTif

SpecTif == InitTif /\ [][NextTif]_vars

\* C4: every feature in the vector store has an intensity greater than 0
\* and different from the no-data sentinel.
C4_PersistedIntensities ==
    \A g \in DOMAIN shps : \A i \in DOMAIN shps[g] :
        shps[g][i].properties.value > 0 /\ shps[g][i].properties.value # NoData

\* A raster with zero cells, no-data cells and flooded cells was vectorized
\* and its features persisted.
C4_Witness ==
    /\ pc = "tif_end"
    /\ \E g \in DOMAIN shps :
          /\ shps[g] # << >>
          /\ \E p \in Pixels(tifs[g]) : tifs[g].v[p] = 0
          /\ \E p \in Pixels(tifs[g]) : tifs[g].v[p] = NoData

----------------------------------------------------------------------------
(* The vectorizer on its own: every grid of VecRows x VecCols cells. *)

VecRows == 3
VecCols == 3

VecGrids ==
    {[h |-> VecRows, w |-> VecCols, r0 |-> 0, c0 |-> 0, v |-> f] :
        f \in [(1..VecRows) \X (1..VecCols) -> Vals]}

InitVec ==
    /\ regionFiles = << >> /\ gid_region = 1 /\ data = {}
    /\ flood_tiff = << >> /\ tifs = << >> /\ shps = << >>
    /\ pc = "vec_read" /\ idx = 0 /\ todo = {} /\ handles = 0
    /\ done = {} /\ failed = {} /\ raised = "none"
    /\ array \in VecGrids /\ output = << >> /\ rt = << >>
    /\ combined_gdf = << >> /\ pop_bound_flood = {} /\ intersection = NotCalled

\* process_tif, lines 136-169, on the raster alone.
Vectorize ==
    /\ pc = "vec_read"
    /\ \E diag \in BOOLEAN : output' = Features(array, diag)
    /\ pc' = "vec_done"
    /\ UNCHANGED <<inputVars, flood_tiff, tifs, shps, idx, todo, handles, done, failed,
                   raised, array, rt, overlayVars>>

\* The raster burnt back from the features, on the grid of the source.
Rerasterize ==
    /\ pc = "vec_done"
    /\ rt' = Rasterize(output, array)
    /\ pc' = "vec_back"
    /\ UNCHANGED <<inputVars, flood_tiff, tifs, shps, idx, todo, handles, done, failed,
                   raised, array, output, overlayVars>>

NextVec == Vectorize \/ Rerasterize

SpecVec == InitVec /\ [][NextVec]_vars

\* C5: re-rasterizing the features of a raster reproduces every cell that
\* is not no-data.
C5_RoundTripLossless ==
    pc = "vec_back" => \A p \in Pixels(array) :
        array.v[p] # NoData => rt[p] = array.v[p]

----------------------------------------------------------------------------
(* pop_flood and flood_pop_overlay *)

MaxPolys == 2

\* A feature as process_tif writes it: one ring, one value.
Feat(cells, val) ==
    [type |-> "Polygon",
     geometry |-> [type |-> "Polygon", coordinates |-> << cells >>],
     properties |-> [value |-> val]]

\* Features in the first column (inside region 1) and in column
\* HazCols + 1 (inside no region).
FeaturePool == {Feat({<<1, 1>>}, 1), Feat({<<1, HazCols + 1>>}, 1)}

FeatureSeqs == UNION {[1..n -> FeaturePool] : n \in 0..MaxPolys}

\* The vector stores: any of the region codes' files, each with up to
\* MaxPolys features.
VectorStores(level) ==
    UNION {[stems -> FeatureSeqs] :
             stems \in SUBSET {Code(level, i) : i \in 1..NumRegions}}

\* The boundary file whose region i is column i.
TiledFile(level) ==
    CHOOSE file \in BoundaryFiles(level) :
        \A i \in 1..NumRegions : file[i].geometry = {<<1, i>>}

\* The population csv of a level: one row per region code it covers,
\* with the codes of the levels above.
PopRow(level, i) ==
    [GID_1 |-> IF level = 1 THEN Code(1, i) ELSE Parent(i),
     GID_2 |-> IF level = 1 THEN "" ELSE Code(2, i),
     population |-> 10 * i]

PopTables(level) == SUBSET {PopRow(level, i) : i \in 1..(NumRegions + 1)}

\* to_file writes the .shp with its sidecar files; os.listdir returns them all.
ListDir(store) == (DOMAIN store) \X {"shp", "shx", "dbf"}

\* line 189 (and 212): the entries that end with '.shp'.
ShpEntries(listing) == {e \in listing : e[2] = "shp"}

\* The orders in which os.listdir can give the entries of S.
Orders(S) == {o \in [1..Cardinality(S) -> S] : \A i, j \in DOMAIN o : o[i] = o[j] => i = j}

\* pop_flood, lines 185-197, for one order of the .shp entries: each file
\* is read and appended to combined_gdf (ignore_index = True).
RECURSIVE AppendAll(_, _, _)
AppendAll(store, order, k) ==
    IF k = 0 THEN << >>
    ELSE AppendAll(store, order, k - 1) \o store[order[k][1]]

\* pop_flood keeping the frame read last (combined_gdf = gdf).
pop_flood_last(store, order) ==
    IF Len(order) = 0 THEN << >> ELSE store[order[Len(order)][1]]

pop_flood_of(store, order) == AppendAll(store, order, Len(order))

\* line 218: country_boundaries.merge(data, left_on = 'GID_1', right_on =
\* 'GID_1'), how = 'inner' by default.
merge(country_boundaries, rows) ==
    {m \in {[boundary |-> country_boundaries[i], pop |-> d] :
               i \in DOMAIN country_boundaries, d \in rows} :
        m.boundary.GID_1 = m.pop.GID_1}

\* line 223: gpd.overlay(pop_bound_flood, combined_gdf, how = 'intersection')
\* of two frames with rows: one row per pair of rows whose geometries
\* intersect, with the attributes of both (hazard is the row of combined).
overlay(joined, combined) ==
    {r \in {[boundary |-> m.boundary, pop |-> m.pop, hazard |-> k,
             value |-> combined[k].properties.value,
             geometry |-> m.boundary.geometry \cap combined[k].geometry.coordinates[1]] :
               m \in joined, k \in DOMAIN combined} :
        r.geometry # {}}

\* lines 213-223 for one boundary file. The code tests neither frame for
\* emptiness; what gpd.overlay does with an empty frame (an empty result,
\* or an error of its own) depends on the geopandas installed.
OverlayOne(file, rows, combined, raisesOnEmpty) ==
    LET joined == merge(file, rows)
    IN  IF (joined = {} \/ combined = << >>) /\ raisesOnEmpty
        THEN [status |-> "LibraryError", rows |-> {}]
        ELSE [status |-> "ok", rows |-> overlay(joined, combined)]

\* lines 211-225 for one order of os.listdir(folder): `intersection` is
\* assigned once per .shp file and returned after the loop.
RECURSIVE OverlayLoop(_, _, _, _, _, _)
OverlayLoop(files, order, k, rows, combined, raisesOnEmpty) ==
    IF k = 0 THEN [status |-> "UnboundLocalError", rows |-> {}]
    ELSE LET before == OverlayLoop(files, order, k - 1, rows, combined, raisesOnEmpty)
         IN  IF before.status = "LibraryError" THEN before
             ELSE OverlayOne(files[order[k]], rows, combined, raisesOnEmpty)

InitOverlay ==
    /\ gid_region \in Levels
    /\ \E present \in SUBSET Levels : regionFiles = [l \in present |-> TiledFile(l)]
    /\ data \in PopTables(gid_region)
    /\ flood_tiff = << >>
    /\ tifs = << >>
    /\ shps \in VectorStores(gid_region)
    /\ pc = "new" /\ idx = 0 /\ todo = {} /\ handles = 0
    /\ done = {} /\ failed = {} /\ raised = "none"
    /\ array = << >> /\ output = << >> /\ rt = << >>
    /\ combined_gdf = << >> /\ pop_bound_flood = {} /\ intersection = NotCalled

\* pop_flood, lines 178-197.
pop_flood ==
    /\ pc \in Returned
    /\ \E listing \in Orders(ShpEntries(ListDir(shps))) :
          combined_gdf' = pop_flood_of(shps, listing)
    /\ pc' = "pop_end"
    /\ UNCHANGED <<inputVars, flood_tiff, tifs, shps, idx, todo, handles, done, failed,
                   raised, vecVars, pop_bound_flood, intersection>>

\* flood_pop_overlay, lines 199-225.
flood_pop_overlay ==
    /\ pc \in Returned
    /\ \E order \in Orders(DOMAIN regionFiles),
          listing \in Orders(ShpEntries(ListDir(shps))),
          raisesOnEmpty \in BOOLEAN :
        LET combined == pop_flood_of(shps, listing)
            n == Cardinality(DOMAIN regionFiles)
        IN  /\ intersection' = OverlayLoop(regionFiles, order, n, data, combined, raisesOnEmpty)
            /\ combined_gdf' = IF n = 0 THEN combined_gdf ELSE combined
            /\ pop_bound_flood' =
                 IF n = 0 THEN pop_bound_flood ELSE merge(regionFiles[order[n]], data)
    /\ pc' = "overlay_end"
    /\ UNCHANGED <<inputVars, flood_tiff, tifs, shps, idx, todo, handles, done, failed,
                   raised, vecVars>>

NextOverlay == pop_flood \/ flood_pop_overlay

SpecOverlay == InitOverlay /\ [][NextOverlay]_vars

\* pop_flood on every vector store.
InitPop ==
    /\ regionFiles = << >> /\ gid_region \in Levels /\ data = {}
    /\ flood_tiff = << >>
    /\ tifs = << >>
    /\ shps \in VectorStores(gid_region)
    /\ pc = "new" /\ idx = 0 /\ todo = {} /\ handles = 0
    /\ done = {} /\ failed = {} /\ raised = "none"
    /\ array = << >> /\ output = << >> /\ rt = << >>
    /\ combined_gdf = << >> /\ pop_bound_flood = {} /\ intersection = NotCalled

NextPop == pop_flood

SpecPop == InitPop /\ [][NextPop]_vars

Count(seq, f) == Cardinality({i \in DOMAIN seq : seq[i] = f})

RECURSIVE CountIn(_, _, _)
CountIn(store, stems, f) ==
    IF stems = {} THEN 0
    ELSE LET g == CHOOSE x \in stems : TRUE
         IN  Count(store[g], f) + CountIn(store, stems \ {g}, f)

RECURSIVE Rows(_, _)
Rows(store, stems) ==
    IF stems = {} THEN 0
    ELSE LET g == CHOOSE x \in stems : TRUE
         IN  Len(store[g]) + Rows(store, stems \ {g})

\* C6: what pop_flood returns holds each feature as many times as the files
\* of the vector store hold it together, and as many rows as the files
\* have together.
C6_Concatenation ==
    pc = "pop_end" =>
        /\ Len(combined_gdf) = Rows(shps, DOMAIN shps)
        /\ \A f \in FeaturePool :
              Count(combined_gdf, f) = CountIn(shps, DOMAIN shps, f)

\* pop_flood returned the rows of two files that both hold one feature.
C6_Witness ==
    /\ pc = "pop_end"
    /\ \E g1, g2 \in DOMAIN shps, f \in FeaturePool :
          /\ g1 # g2
          /\ Count(shps[g1], f) > 0 /\ Count(shps[g2], f) > 0
          /\ Count(combined_gdf, f) > 1

\* C7: the frame flood_pop_overlay overlays is the inner join of the
\* boundary regions and the population rows on the region code of the
\* configured administrative level (one boundary file, of that level).
C7_JoinOnConfiguredLevel ==
    (pc = "overlay_end" /\ DOMAIN regionFiles = {gid_region}) =>
        pop_bound_flood =
            {m \in {[boundary |-> regionFiles[gid_region][i], pop |-> d] :
                       i \in DOMAIN regionFiles[gid_region], d \in data} :
                GidOf(m.boundary, gid_region) = GidOf(m.pop, gid_region)}

\* C8: with one boundary file, flood_pop_overlay fails with OverlayError
\* when the joined frame or the hazard collection is empty, and otherwise
\* returns the intersection, empty when nothing overlaps.
C8_EmptyInputIsOverlayError ==
    (pc = "overlay_end" /\ Cardinality(DOMAIN regionFiles) = 1) =>
        IF pop_bound_flood = {} \/ combined_gdf = << >>
        THEN intersection.status = "OverlayError"
        ELSE /\ intersection.status = "ok"
             /\ intersection.rows = overlay(pop_bound_flood, combined_gdf)

\* C10: whatever .shp boundary files the regions folder holds (none, one,
\* several), flood_pop_overlay returns the intersections of all of them
\* (inputs that are not empty).
C10_DefinedResultForEveryFolder ==
    (/\ pc = "overlay_end"
     /\ \E g \in DOMAIN shps : shps[g] # << >>
     /\ \A l \in DOMAIN regionFiles : merge(regionFiles[l], data) # {}) =>
        /\ intersection.status = "ok"
        /\ intersection.rows =
             UNION {overlay(merge(regionFiles[l], data), combined_gdf) :
                      l \in DOMAIN regionFiles}

====
